---- MODULE Spec2Model ----
(***************************************************************************)
(* Model of create-revite (bin/cli.js): the project-materialization run.   *)
(*                                                                         *)
(* A run is one invocation of the commander action (cli.js:22-29).  The    *)
(* JavaScript is single threaded: every action below is one continuation, *)
(* the code that runs from the completion of one awaited operation to the  *)
(* next await (or to the end of the run).                                  *)
(*                                                                         *)
(* Text is a sequence of tokens.  Names are sequences of one-character     *)
(* strings, paths are sequences of names (the absolute path /w/app is      *)
(* <<w, app>>, the filesystem root is << >>).                              *)
(***************************************************************************)
EXTENDS Integers, Sequences, FiniteSets, TLC

(***************************************************************************)
(* Bounds of the model.                                                    *)
(***************************************************************************)
\* child processes exit with a code in 0..MaxExitCode
MaxExitCode == 1

\* the events a child process delivers after the one that settled its promise
MaxLateEvents == 1

(***************************************************************************)
(* Generic sequence helpers (JavaScript String / Array primitives).        *)
(***************************************************************************)
Last(s) == s[Len(s)]

Front(s) == SubSeq(s, 1, Len(s) - 1)

\* String.prototype.startsWith
StartsWith(s, pre) ==
  /\ Len(pre) <= Len(s)
  /\ SubSeq(s, 1, Len(pre)) = pre

\* positions at which pat occurs in s
Occurrences(s, pat) ==
  { i \in 1..(Len(s) - Len(pat) + 1) : SubSeq(s, i, i + Len(pat) - 1) = pat }

\* String.prototype.includes
Includes(s, pat) == Occurrences(s, pat) # {}

\* mutant of Replace: without an occurrence the replacement is appended
ReplaceAppendsWhenAbsent(s, pat, rep) ==
  IF Occurrences(s, pat) = {}
  THEN s \o rep
  ELSE LET i == CHOOSE k \in Occurrences(s, pat) :
                  \A j \in Occurrences(s, pat) : k <= j
       IN SubSeq(s, 1, i - 1) \o rep \o SubSeq(s, i + Len(pat), Len(s))

\* String.prototype.replace(pattern: string, replacement: string):
\* only the first occurrence is replaced, no occurrence leaves s unchanged
Replace(s, pat, rep) ==
  IF Occurrences(s, pat) = {}
  THEN s
  ELSE LET i == CHOOSE k \in Occurrences(s, pat) :
                  \A j \in Occurrences(s, pat) : k <= j
       IN SubSeq(s, 1, i - 1) \o rep \o SubSeq(s, i + Len(pat), Len(s))

\* String.prototype.split(sep) for a one-character separator
RECURSIVE Split(_, _)
Split(s, sep) ==
  IF \A i \in 1..Len(s) : s[i] # sep
  THEN << s >>
  ELSE LET i == CHOOSE k \in 1..Len(s) :
                  s[k] = sep /\ \A j \in 1..(k - 1) : s[j] # sep
       IN << SubSeq(s, 1, i - 1) >> \o Split(SubSeq(s, i + 1, Len(s)), sep)

\* Array.prototype.join(' ') over a list of token sequences
RECURSIVE JoinSpace(_)
JoinSpace(parts) ==
  IF Len(parts) = 0 THEN << >>
  ELSE IF Len(parts) = 1 THEN parts[1]
  ELSE parts[1] \o << " " >> \o JoinSpace(Tail(parts))

(***************************************************************************)
(* Names used by the runs of the model.                                    *)
(***************************************************************************)
Dot == << "." >>

NameApp == << "a", "p", "p" >>

NameScoped == << "@", "s", "/", "a" >>

NameUpperSpace == << "A", " ", "b" >>

NameUpper == << "A", "b" >>

NameDotted == << ".", "a" >>

NameUnderscore == << "_", "a" >>

NameBlacklisted == << "n", "o", "d", "e", "_", "m", "o", "d", "u", "l", "e", "s" >>

NameGit == << ".", "g", "i", "t" >>

NameNotes == << "n", "o", "t", "e", "s" >>

NameScope == << "@", "s" >>

NameW == << "w" >>

NameSrc == << "src" >>

\* the values of the [project-directory] argument; << >> is the omitted
\* argument (undefined and '' are both falsy at cli.js:42 and cli.js:118)
DirectoryArgs ==
  { << >>, Dot, NameApp, NameNotes, NameScoped, NameUpper, NameUpperSpace,
    NameDotted, NameUnderscore, NameBlacklisted }

\* the values of --template the runs are started with
TemplateArgs == { "basic", "dashboard", "landing", "blog", "fancy" }

\* the working directories the tool is started in
Cwds == { << >>, << NameW >> }

(***************************************************************************)
(* path module of Node.js, on posix absolute paths.                        *)
(***************************************************************************)
\* resolution of '.', '..' and empty segments
RECURSIVE Normalize(_, _)
Normalize(base, segs) ==
  IF Len(segs) = 0 THEN base
  ELSE LET h == Head(segs)
       IN IF h = << >> \/ h = Dot
          THEN Normalize(base, Tail(segs))
          ELSE IF h = << ".", "." >>
          THEN Normalize(IF Len(base) = 0 THEN base ELSE Front(base), Tail(segs))
          ELSE Normalize(Append(base, h), Tail(segs))

\* path.resolve(name) for a relative name, against process.cwd()
PathResolve(dir, name) == Normalize(dir, Split(name, "/"))

\* path.join(dir, rel)
PathJoin(dir, rel) == Normalize(dir, Split(rel, "/"))

\* path.dirname(p); the root is its own parent
PathDirname(p) == IF Len(p) = 0 THEN p ELSE Front(p)

\* path.basename(p); '' for the root
PathBasename(p) == IF Len(p) = 0 THEN << >> ELSE Last(p)

\* all ancestors of p, p included
Ancestors(p) == { SubSeq(p, 1, k) : k \in 0..Len(p) }

(***************************************************************************)
(* validate-npm-package-name, as called at cli.js:63.                      *)
(***************************************************************************)
LowerOf(c) == IF c = "A" THEN "a" ELSE IF c = "B" THEN "b" ELSE c

ToLowerCase(s) == [ i \in 1..Len(s) |-> LowerOf(s[i]) ]

\* characters encodeURIComponent leaves as they are
UrlSafeChar(c) == c \notin { " ", "@", "/" }

UrlSafe(s) == \A i \in 1..Len(s) : UrlSafeChar(s[i])

\* /^(?:@([^/]+?)[/])?([^/]+?)$/ with both groups URL-safe
ScopedOk(s) ==
  /\ Len(s) >= 1
  /\ s[1] = "@"
  /\ LET parts == Split(Tail(s), "/")
     IN /\ Len(parts) = 2
        /\ Len(parts[1]) > 0 /\ UrlSafe(parts[1])
        /\ Len(parts[2]) > 0 /\ UrlSafe(parts[2])

Blacklist == { NameBlacklisted, << "f", "a", "v", "i", "c", "o", "n", ".", "i", "c", "o" >> }

\* the errors, in the order the validator pushes them
NameErrors(s) ==
  (IF Len(s) = 0 THEN << "name length must be greater than zero" >> ELSE << >>)
  \o (IF StartsWith(s, << "." >>) THEN << "name cannot start with a period" >> ELSE << >>)
  \o (IF StartsWith(s, << "_" >>) THEN << "name cannot start with an underscore" >> ELSE << >>)
  \o (IF Len(s) > 0 /\ (s[1] = " " \/ Last(s) = " ")
      THEN << "name cannot contain leading or trailing spaces" >> ELSE << >>)
  \o (IF ToLowerCase(s) \in Blacklist THEN << "blacklisted name" >> ELSE << >>)
  \o (IF ~UrlSafe(s) /\ ~ScopedOk(s)
      THEN << "name can only contain URL-friendly characters" >> ELSE << >>)

NameWarnings(s) ==
  IF ToLowerCase(s) # s
  THEN << "name can no longer contain capital letters" >> ELSE << >>

validateProjectName(s) ==
  [ validForNewPackages |-> Len(NameErrors(s)) = 0 /\ Len(NameWarnings(s)) = 0,
    errors |-> NameErrors(s),
    warnings |-> NameWarnings(s) ]

(***************************************************************************)
(* File names and file contents.                                           *)
(***************************************************************************)
ViteConfigJs == << "vite", ".", "config", ".", "js" >>

ViteConfigTs == << "vite", ".", "config", ".", "ts" >>

SrcIndexCss == << "src", "/", "index", ".", "css" >>

SrcAppCss == << "src", "/", "App", ".", "css" >>

AppJsx == << "App", ".", "jsx" >>

AppTsx == << "App", ".", "tsx" >>

\* the anchor texts of the build-config patch and their replacements
ImportAnchor == << "import { defineConfig } from 'vite'" >>

ImportReplacement ==
  << "import { defineConfig } from 'vite'", "\n",
     "import tailwindcss from '@tailwindcss/vite'" >>

PluginsAnchor == << "plugins: [react()", "]" >>

\* mutant of PluginsReplacement: the new array drops the react plugin
PluginsReplacementDropsReact == << "plugins: [tailwindcss()", "]" >>

PluginsReplacement == << "plugins: [react()", ", tailwindcss()", "]" >>

\* mutant of tailwindImports: the three directives of the older CSS engine
tailwindImportsDirectives ==
  << "@tailwind base;", "\n", "@tailwind components;", "\n",
     "@tailwind utilities;", "\n" >>

\* cli.js:559
tailwindImports == << "@import \"tailwindcss\";", "\n" >>

\* build-config files the generator may write: its known default, one with
\* neither anchor text, one with the import anchor only
ConfigDefault ==
  << "import { defineConfig } from 'vite'", "\n",
     "import react from '@vitejs/plugin-react'", "\n",
     "export default defineConfig({", "\n",
     "plugins: [react()", "]", ",", "\n", "})" >>

ConfigNoAnchors ==
  << "import { defineConfig } from \"vite\"", "\n",
     "import react from \"@vitejs/plugin-react\"", "\n",
     "export default defineConfig({", "\n",
     "plugins: [react({ babel: {} })", "]", ",", "\n", "})" >>

ConfigImportOnly ==
  << "import { defineConfig } from 'vite'", "\n",
     "import react from '@vitejs/plugin-react-swc'", "\n",
     "export default defineConfig({", "\n",
     "plugins: [react({ babel: {} })", "]", ",", "\n", "})" >>

GeneratedConfigs == { ConfigDefault, ConfigNoAnchors, ConfigImportOnly }

GeneratedIndexCss == << ":root { font-family: system-ui }", "\n" >>

GeneratedIndexCssDark == << ":root { color-scheme: dark }", "\n", "body { margin: 0 }", "\n" >>

\* the entry stylesheet that comes with a build-config file: the generator
\* versions differ in both
IndexCssOf(config) ==
  IF config = ConfigDefault THEN GeneratedIndexCss ELSE GeneratedIndexCssDark

GeneratedApp == << "import './App.css'", "\n", "function App() {", "export default App" >>

GeneratedAppCss == << "#root { max-width: 1280px }", "\n" >>

(***************************************************************************)
(* generateAppTemplate (cli.js:161-529).  Each blob is abridged to its     *)
(* first lines, which tell the four blobs apart, and its last line.        *)
(***************************************************************************)
TemplateBasic ==
  << "import reactLogo from './assets/react.svg'", "\n",
     "import viteLogo from '/vite.svg'", "\n",
     "function App() {", "\n",
     "<div className=\"min-h-screen bg-gray-100 flex items-center justify-center\">", "\n",
     "export default App" >>

TemplateDashboard ==
  << "function App() {", "\n",
     "<div className=\"min-h-screen bg-gray-50\">", "\n",
     "{/* Header */}", "\n",
     "export default App" >>

TemplateLanding ==
  << "function App() {", "\n",
     "<div className=\"min-h-screen bg-white\">", "\n",
     "{/* Navigation */}", "\n",
     "export default App" >>

TemplateBlog ==
  << "function App() {", "\n",
     "const posts = [", "\n",
     "export default App" >>

templates ==
  [ basic |-> TemplateBasic, dashboard |-> TemplateDashboard,
    landing |-> TemplateLanding, blog |-> TemplateBlog ]

\* mutant of generateAppTemplate: the argument is ignored
generateAppTemplateAlwaysBasic(templateType) == templates.basic

\* the property names every object literal inherits from Object.prototype
ObjectPrototypeKeys ==
  { "constructor", "toString", "valueOf", "hasOwnProperty", "__proto__" }

\* the value of an inherited property: a function or an object, which is
\* truthy and is not a string
Inherited(key) == << "[inherited]", key >>

NonText == { Inherited(key) : key \in ObjectPrototypeKeys }

\* cli.js:528, templates[templateType] || templates.basic: the property
\* lookup finds the own properties of the literal, then the inherited ones
generateAppTemplate(templateType) ==
  IF templateType \in DOMAIN templates
  THEN templates[templateType]
  ELSE IF templateType \in ObjectPrototypeKeys
  THEN Inherited(templateType)
  ELSE templates.basic

(***************************************************************************)
(* State of a run.                                                         *)
(***************************************************************************)
VARIABLES
  projectDirectory,  \* the [project-directory] argument, << >> when omitted
  options,           \* [typescript, tailwind, template] as parsed by commander
  cwd,               \* process.cwd()
  dirs,              \* filesystem: the directories that exist
  files,             \* filesystem: the regular files and their contents
  pc,                \* the await the run is suspended at
  projectName,       \* cli.js:39
  projectPath,       \* cli.js:40
  viteConfig,        \* cli.js:537
  spinner,           \* state of the ora status indicator
  out,               \* everything printed so far, in order
  spawned,           \* every child_process.spawn call so far, in order
  alive,             \* child processes spawned and not yet closed
  fsInFlight,        \* fs-extra operations issued and not yet completed
  mutations,         \* every filesystem mutation the tool performed, in order
  generated,         \* the files the generator wrote, by path
  settled,           \* the awaited operations that have settled, in order,
                     \* each with the outcome its environment delivered
  initialEntries,    \* the paths that existed when the tool was started
  late,              \* the child-process events delivered to a handler whose
                     \* promise was settled already, counted
  exitCode           \* process exit status, -1 while the process runs

vars ==
  << projectDirectory, options, cwd, dirs, files, pc, projectName,
     projectPath, viteConfig, spinner, out, spawned, alive, fsInFlight,
     mutations, generated, settled, initialEntries, late, exitCode >>

inputs == << projectDirectory, options, cwd, initialEntries >>

\* an entry of settled
Settled(op, outcome, code) == [ op |-> op, outcome |-> outcome, code |-> code ]

locals == << projectName, projectPath, viteConfig >>

(***************************************************************************)
(* Filesystem primitives (fs-extra).                                       *)
(***************************************************************************)
\* mutant of PathExists: only regular files count as existing
PathExistsFilesOnly(p) == p \in DOMAIN files

\* fs.pathExists
PathExists(p) == p \in dirs \/ p \in DOMAIN files

\* fs.readdir: the names of the entries of directory p
Readdir(p) ==
  { Last(q) : q \in { r \in dirs \cup DOMAIN files :
                        Len(r) = Len(p) + 1 /\ Front(r) = p } }

\* fs.writeFile succeeds when the parent directory exists and the path is
\* not a directory
CanWriteFile(p) == PathDirname(p) \in dirs /\ p \notin dirs

\* fs.writeFile takes a string (or a buffer) as data and rejects any other
\* value with ERR_INVALID_ARG_TYPE
IsText(content) == content \notin NonText

\* mutant of WriteFile: the content is appended to an existing file
WriteFileAppends(fs, p, content) ==
  [ q \in DOMAIN fs \cup { p } |->
      IF q # p THEN fs[q]
      ELSE IF p \in DOMAIN fs THEN fs[p] \o content ELSE content ]

\* the files after fs.writeFile(p, content)
WriteFile(fs, p, content) ==
  [ q \in DOMAIN fs \cup { p } |-> IF q = p THEN content ELSE fs[q] ]

\* the files after fs.remove(p)
RemoveFile(fs, p) ==
  [ q \in { r \in DOMAIN fs : ~StartsWith(r, p) } |-> fs[q] ]

\* the text of a path in a message
RECURSIVE PathText(_)
PathText(p) ==
  IF Len(p) = 0 THEN << >>
  ELSE << "/" >> \o Head(p) \o PathText(Tail(p))

(***************************************************************************)
(* Decisions of createProject and createViteProject.                       *)
(***************************************************************************)
\* mutant of validTemplates: the list also holds the id the run was given
validTemplatesAcceptsAny == TemplateArgs

\* cli.js:33
validTemplates == { "basic", "dashboard", "landing", "blog" }

\* cli.js:42
useCurrentDirectory(dir) == dir = << >> \/ dir = Dot

\* mutant of relevantFiles: hidden entries are not filtered out
relevantFilesKeepsHidden(entries) == entries

\* cli.js:47
relevantFiles(entries) == { file \in entries : ~StartsWith(file, << "." >>) }

\* mutant of template: the TypeScript flag is ignored
templateAlwaysReact == << "react" >>

\* cli.js:83
template == IF options.typescript THEN << "react-ts" >> ELSE << "react" >>

\* mutant of useTailwind: the test is true for --no-tailwind too
useTailwindIgnoresFlag == options.tailwind \in BOOLEAN

\* cli.js:84
useTailwind == options.tailwind # FALSE

\* cli.js:133
targetName(path, name) == IF path = cwd THEN Dot ELSE name

\* cli.js:143
viteCwd(path) == PathDirname(path)

\* mutant of viteSpawn: the --template option of the tool is handed on to
\* the generator
viteSpawnPassesTemplateOption(path, tmpl, name) ==
  [ command |-> << "npx" >>,
    args |-> << << "create-vite@latest" >>, targetName(path, name),
                << "--template" >>, << options.template >>, << "--yes" >> >>,
    cwd |-> viteCwd(path) ]

\* cli.js:134-145: the spawn call of createViteProject
viteSpawn(path, tmpl, name) ==
  [ command |-> << "npx" >>,
    args |-> << << "create-vite@latest" >>, targetName(path, name),
                << "--template" >>, tmpl, << "--yes" >> >>,
    cwd |-> viteCwd(path) ]

\* cli.js:532
tailwindSpawn(path) ==
  [ command |-> << "npm" >>,
    args |-> << << "install" >>, << "tailwindcss" >>, << "@tailwindcss/vite" >> >>,
    cwd |-> path ]

\* mutant of installSpawn: the install runs in the parent of the target,
\* as the generator does
installSpawnInParent(path) ==
  [ command |-> << "npm" >>, args |-> << << "install" >> >>,
    cwd |-> PathDirname(path) ]

\* cli.js:577
installSpawn(path) ==
  [ command |-> << "npm" >>, args |-> << << "install" >> >>, cwd |-> path ]

\* the directory the generator populates: its working directory joined
\* with its target argument
generatorRoot(sp) == PathJoin(sp.cwd, sp.args[2])

\* cli.js:149
viteErrorMessage(code) ==
  << "Vite creation failed with exit code ", ToString(code),
     ". Please check your internet connection and try again." >>

\* mutant of commandErrorMessage: the arguments are left out of the message
commandErrorMessageWithoutArgs(command, args, code) ==
  << "Command \"" >> \o command \o << "\" failed with exit code ", ToString(code) >>

\* cli.js:591
commandErrorMessage(command, args, code) ==
  << "Command \"" >> \o command \o << " " >> \o JoinSpace(args)
    \o << "\" failed with exit code ", ToString(code) >>

\* the message of the system error of a failed spawn or file operation
systemErrorMessage(what) == << what >>

\* cli.js:534
viteConfigFile(isTypeScript) == IF isTypeScript THEN ViteConfigTs ELSE ViteConfigJs

\* cli.js:563
appFile(isTypeScript) == IF isTypeScript THEN AppTsx ELSE AppJsx

\* cli.js:539-554: the two substitutions on the build-config text
patchViteConfig(text) ==
  Replace(Replace(text, ImportAnchor, ImportReplacement),
          PluginsAnchor, PluginsReplacement)

(***************************************************************************)
(* Output.                                                                 *)
(***************************************************************************)
stdout(text) == [ stream |-> "stdout", text |-> text ]

stderr(text) == [ stream |-> "stderr", text |-> text ]

spin(event, text) == [ stream |-> "spinner", text |-> << event, text >> ]

ErrorPrefix == "Error creating project:"

\* cli.js:26
topLevelError(message) == stderr(<< ErrorPrefix, " " >> \o message)

(***************************************************************************)
(* Initial states: the command line, the working directory and the         *)
(* filesystem the tool is started on.                                      *)
(***************************************************************************)
\* entries the working directory may hold before the run
CwdDirEntries == { NameGit, NameApp, NameScope }

NoFiles == [ q \in {} |-> << >> ]

Init ==
  /\ projectDirectory \in DirectoryArgs
  /\ options \in [ typescript : BOOLEAN, tailwind : BOOLEAN, template : TemplateArgs ]
  /\ cwd \in Cwds
  /\ \E extra \in SUBSET CwdDirEntries :
       dirs = Ancestors(cwd) \cup { Append(cwd, n) : n \in extra }
  /\ \E notes \in BOOLEAN :
       files = IF notes
               THEN [ q \in { Append(cwd, NameNotes) } |-> << "x" >> ]
               ELSE NoFiles
  /\ pc = "action"
  /\ projectName = << >>
  /\ projectPath = << >>
  /\ viteConfig = << >>
  /\ spinner = [ state |-> "idle", text |-> "" ]
  /\ out = << >>
  /\ spawned = << >>
  /\ alive = 0
  /\ fsInFlight = 0
  /\ mutations = << >>
  /\ generated = NoFiles
  /\ settled = << >>
  /\ initialEntries = dirs \cup DOMAIN files
  /\ late = 0
  /\ exitCode = -1

(***************************************************************************)
(* Fragments shared by the continuations.                                  *)
(***************************************************************************)
\* mutant of Return: every return of createProject ends the process with
\* status 1
ReturnWithStatus1(printed) ==
  /\ out' = out \o printed
  /\ pc' = "exited"
  /\ exitCode' = 1

\* createProject returns (cli.js:36, 59, 68, 75, 129): the action handler
\* returns normally, nothing is pending and the process ends with status 0
Return(printed) ==
  /\ out' = out \o printed
  /\ pc' = "exited"
  /\ exitCode' = 0

\* an error thrown outside the try block of cli.js:87 reaches the catch of
\* the action handler (cli.js:25-28)
ThrowOutsideTry(message) ==
  /\ out' = Append(out, topLevelError(message))
  /\ pc' = "exited"
  /\ exitCode' = 1

\* mutant of ThrowInTry: the catch block marks the spinner failed and
\* swallows the error instead of throwing it again
ThrowInTrySwallowed(message) ==
  /\ spinner' = [ state |-> "fail", text |-> "Failed to create project" ]
  /\ out' = out \o << spin("fail", "Failed to create project") >>
  /\ pc' = "exited"
  /\ exitCode' = 0

\* an error thrown inside the try block: cli.js:125-128, then cli.js:25-28
ThrowInTry(message) ==
  /\ spinner' = [ state |-> "fail", text |-> "Failed to create project" ]
  /\ out' = out \o << spin("fail", "Failed to create project"),
                      topLevelError(message) >>
  /\ pc' = "exited"
  /\ exitCode' = 1

\* cli.js:79-88: the banner, the spinner and the spawn of the generator
\* (the caller counts the new child in alive)
BeginStages ==
  /\ out' = out \o
       << stdout(<< "Creating a new React + Vite + Tailwind app in " >>
                 \o PathText(projectPath)),
          stdout(<< "Using template: ", options.template >>),
          spin("start", "Creating Vite project...") >>
  /\ spinner' = [ state |-> "spinning", text |-> "Creating Vite project..." ]
  /\ spawned' = Append(spawned, viteSpawn(projectPath, template, projectName))
  /\ pc' = "createViteProject"
  /\ exitCode' = exitCode

\* cli.js:97-98: the spinner and the spawn of the bulk install, after the
\* events `before` of the same continuation
BeginInstall(before) ==
  /\ out' = out \o before \o << spin("start", "Installing dependencies...") >>
  /\ spinner' = [ state |-> "spinning", text |-> "Installing dependencies..." ]
  /\ spawned' = Append(spawned, installSpawn(projectPath))
  /\ pc' = "installDependencies"
  /\ exitCode' = exitCode

\* cli.js:101-123
successReport ==
  << stdout(<< "Success! Created " >> \o projectName \o << " at " >>
            \o PathText(projectPath)),
     stdout(<< "  npm run dev" >>),
     stdout(<< "  npm run build" >>),
     stdout(<< "  npm run preview" >>) >>
  \o (IF ~useCurrentDirectory(projectDirectory)
      THEN << stdout(<< "  cd " >> \o projectName) >> ELSE << >>)
  \o << stdout(<< "  npm run dev" >>), stdout(<< "Happy coding!" >>) >>

(***************************************************************************)
(* The continuations of a run.                                             *)
(***************************************************************************)
\* cli.js:22-24, 31-46 and 62-73: from the start of the action handler to
\* the first await
action ==
  /\ pc = "action"
  /\ IF options.template \notin validTemplates
     THEN /\ Return(<< stderr(<< "Invalid template \"", options.template,
                                 "\". Available templates: basic, dashboard, landing, blog" >>) >>)
          /\ UNCHANGED << projectName, projectPath, fsInFlight >>
     ELSE IF useCurrentDirectory(projectDirectory)
     THEN /\ projectName' = PathBasename(cwd)
          /\ projectPath' = cwd
          /\ fsInFlight' = fsInFlight + 1
          /\ pc' = "readdir"
          /\ UNCHANGED << out, exitCode >>
     ELSE IF ~validateProjectName(projectDirectory).validForNewPackages
     THEN /\ Return(<< stderr(<< "Invalid project name:" >>
                              \o validateProjectName(projectDirectory).errors
                              \o validateProjectName(projectDirectory).warnings) >>)
          /\ projectName' = projectDirectory
          /\ UNCHANGED << projectPath, fsInFlight >>
     ELSE /\ projectName' = projectDirectory
          /\ projectPath' = PathResolve(cwd, projectDirectory)
          /\ fsInFlight' = fsInFlight + 1
          /\ pc' = "pathExists"
          /\ UNCHANGED << out, exitCode >>
  /\ UNCHANGED << inputs, late, dirs, files, viteConfig, spinner, spawned, alive,
                  mutations, generated, settled >>

\* cli.js:46-61: fs.readdir has completed
readdirDone ==
  /\ pc = "readdir"
  /\ fsInFlight' = fsInFlight - 1
  /\ \E failed \in BOOLEAN :
       IF failed
       THEN /\ ThrowOutsideTry(systemErrorMessage("EACCES: permission denied, scandir"))
            /\ settled' = Append(settled, Settled("readdir", "error", 0))
            /\ UNCHANGED << spinner, spawned, alive >>
       ELSE /\ settled' = Append(settled, Settled("readdir", "ok", 0))
            /\ IF relevantFiles(Readdir(projectPath)) # {}
               THEN /\ pc' = "prompts"
                    /\ UNCHANGED << out, exitCode, spinner, spawned, alive >>
               ELSE BeginStages /\ alive' = alive + 1
  /\ UNCHANGED << inputs, late, dirs, files, locals, mutations, generated >>

\* mutant of promptsDone: after a declined prompt the process does not end
promptsDoneCancelHangs ==
  /\ pc = "prompts"
  /\ \E continue \in BOOLEAN :
       IF ~continue
       THEN /\ out' = Append(out, stdout(<< "Operation cancelled." >>))
            /\ pc' = "cancelled"
            /\ exitCode' = exitCode
            /\ settled' = Append(settled, Settled("prompts", "no", 0))
            /\ UNCHANGED << spinner, spawned, alive >>
       ELSE /\ BeginStages
            /\ alive' = alive + 1
            /\ settled' = Append(settled, Settled("prompts", "yes", 0))
  /\ UNCHANGED << inputs, late, dirs, files, locals, fsInFlight, mutations, generated >>

\* cli.js:50-61: the confirmation prompt was answered (an aborted prompt
\* leaves response.continue undefined, which is falsy)
promptsDone ==
  /\ pc = "prompts"
  /\ \E continue \in BOOLEAN :
       IF ~continue
       THEN /\ Return(<< stdout(<< "Operation cancelled." >>) >>)
            /\ settled' = Append(settled, Settled("prompts", "no", 0))
            /\ UNCHANGED << spinner, spawned, alive >>
       ELSE /\ BeginStages
            /\ alive' = alive + 1
            /\ settled' = Append(settled, Settled("prompts", "yes", 0))
  /\ UNCHANGED << inputs, late, dirs, files, locals, fsInFlight, mutations, generated >>

\* cli.js:73-77: fs.pathExists(projectPath) has completed (it never rejects)
pathExistsDone ==
  /\ pc = "pathExists"
  /\ fsInFlight' = fsInFlight - 1
  /\ settled' = Append(settled, Settled("pathExists", "ok", 0))
  /\ IF PathExists(projectPath)
     THEN /\ Return(<< stderr(<< "Directory \"" >> \o projectDirectory
                              \o << "\" already exists." >>) >>)
          /\ UNCHANGED << spinner, spawned, alive >>
     ELSE BeginStages /\ alive' = alive + 1
  /\ UNCHANGED << inputs, late, dirs, files, locals, mutations, generated >>

(***************************************************************************)
(* The external generator (npx create-vite).                               *)
(***************************************************************************)
\* the skeleton create-vite writes under root for a template selector
skeleton(root, tmpl, config, withAppCss) ==
  LET isTs == tmpl = << "react-ts" >>
      cfgPath == PathJoin(root, viteConfigFile(isTs))
      cssPath == PathJoin(root, SrcIndexCss)
      appPath == PathJoin(PathJoin(root, NameSrc), appFile(isTs))
      appCssPath == PathJoin(root, SrcAppCss)
      paths == { cfgPath, cssPath, appPath }
                 \cup (IF withAppCss THEN { appCssPath } ELSE {})
  IN [ q \in paths |->
         IF q = cfgPath THEN config
         ELSE IF q = cssPath THEN IndexCssOf(config)
         ELSE IF q = appPath THEN GeneratedApp
         ELSE GeneratedAppCss ]

\* the files of fs, overwritten and extended by those of written
Overlay(fs, written) ==
  [ q \in DOMAIN fs \cup DOMAIN written |->
      IF q \in DOMAIN written THEN written[q] ELSE fs[q] ]

\* the generator whose spawn call was sp has populated its root
generatorWrites(sp, config, withAppCss) ==
  LET root == generatorRoot(sp)
      written == skeleton(root, sp.args[4], config, withAppCss)
  IN /\ dirs' = dirs \cup Ancestors(root) \cup { PathJoin(root, NameSrc) }
     /\ files' = Overlay(files, written)
     /\ generated' = written

(***************************************************************************)
(* The events of a child process and the promise its handlers settle       *)
(* (cli.js:132-158 and 581-600).  Node emits the events of one child in    *)
(* one turn of the event loop ('error' of a failed spawn is followed by    *)
(* 'close'), so all handlers have run when the awaiting code continues.    *)
(***************************************************************************)
closeEvent(code) == [ event |-> "close", code |-> code ]

errorEvent == [ event |-> "error", code |-> 0 ]

ChildEvents == { closeEvent(code) : code \in 0..MaxExitCode } \cup { errorEvent }

\* the events that may follow the first one of a child
LaterEvents == UNION { [ 1..n -> ChildEvents ] : n \in 0..(MaxLateEvents - late) }

\* cli.js:147-157 and 589-599: the handler of e calls reject, except for a
\* 'close' with code 0, for which it calls resolve
rejects(e) == e.event = "error" \/ e.code # 0

\* a promise that neither resolve nor reject was called on
pending == [ event |-> "none", code |-> 0 ]

\* mutant of settle: a call of reject takes effect on a settled promise too
settleRejectOverrides(promise, e) ==
  IF promise = pending \/ rejects(e) THEN e ELSE promise

\* new Promise((resolve, reject) => ...) of cli.js:132 and 581: the first
\* call of resolve or reject settles the promise, later calls do nothing;
\* a settled promise is represented by the event whose handler settled it
settle(promise, e) == IF promise = pending THEN e ELSE promise

\* the promise after the handlers of events have run in order
RECURSIVE promiseAfter(_, _)
promiseAfter(promise, events) ==
  IF events = << >>
  THEN promise
  ELSE promiseAfter(settle(promise, Head(events)), Tail(events))

\* cli.js:149 and 156: what the promise of createViteProject is rejected with
viteRejection(e) ==
  IF e.event = "error"
  THEN systemErrorMessage("spawn npx ENOENT")
  ELSE viteErrorMessage(e.code)

\* cli.js:591 and 598: what the promise of runCommand is rejected with
commandRejection(sp, e) ==
  IF e.event = "error"
  THEN systemErrorMessage("spawn npm ENOENT")
  ELSE commandErrorMessage(sp.command, sp.args, e.code)

\* cli.js:147-153 and 88-98: the generator child has closed with `code`
createViteProjectClose ==
  /\ pc = "createViteProject"
  /\ Last(spawned).cwd \in dirs
  /\ \E code \in 0..MaxExitCode, later \in LaterEvents :
       LET promise == promiseAfter(pending, << closeEvent(code) >> \o later) IN
       (late' = late + Len(later)) /\
       IF rejects(promise)
       THEN /\ ThrowInTry(viteRejection(promise))
            /\ settled' = Append(settled, Settled("createViteProject", "close", code))
            /\ alive' = alive - 1
            /\ \E partial \in BOOLEAN :
                 dirs' = IF partial
                         THEN dirs \cup Ancestors(generatorRoot(Last(spawned)))
                         ELSE dirs
            /\ UNCHANGED << files, generated, spawned >>
       ELSE /\ \E config \in GeneratedConfigs, withAppCss \in BOOLEAN :
                 generatorWrites(Last(spawned), config, withAppCss)
            /\ settled' = Append(settled, Settled("createViteProject", "close", code))
            /\ alive' = (alive - 1) + 1
            /\ IF useTailwind
               THEN /\ out' = out \o << spin("succeed", "Vite project created"),
                                        spin("start", "Installing Tailwind CSS...") >>
                    /\ spinner' = [ state |-> "spinning",
                                    text |-> "Installing Tailwind CSS..." ]
                    /\ spawned' = Append(spawned, tailwindSpawn(projectPath))
                    /\ pc' = "installTailwind"
                    /\ exitCode' = exitCode
               ELSE BeginInstall(<< spin("succeed", "Vite project created") >>)
  /\ UNCHANGED << inputs, locals, fsInFlight, mutations >>

\* mutant of createViteProjectError: a generator that could not be spawned
\* is spawned once more before the run gives up
createViteProjectErrorRetries ==
  /\ pc = "createViteProject"
  /\ settled' = Append(settled, Settled("createViteProject", "error", 0))
  /\ late' = late
  /\ IF Len(spawned) < 2
     THEN /\ spawned' = Append(spawned, Last(spawned))
          /\ UNCHANGED << pc, out, spinner, exitCode, alive >>
     ELSE /\ ThrowInTry(systemErrorMessage("spawn npx ENOENT"))
          /\ alive' = alive - 1
          /\ UNCHANGED spawned
  /\ UNCHANGED << inputs, dirs, files, locals, fsInFlight, mutations, generated >>

\* cli.js:155-157: the generator child could not be spawned; this is the
\* only outcome when its working directory does not exist
createViteProjectError ==
  /\ pc = "createViteProject"
  /\ \E later \in LaterEvents :
       /\ ThrowInTry(viteRejection(promiseAfter(pending, << errorEvent >> \o later)))
       /\ late' = late + Len(later)
  /\ settled' = Append(settled, Settled("createViteProject", "error", 0))
  /\ alive' = alive - 1
  /\ UNCHANGED << inputs, dirs, files, locals, spawned, fsInFlight, mutations,
                  generated >>

(***************************************************************************)
(* installTailwind (cli.js:531-574), one continuation per await.           *)
(***************************************************************************)
viteConfigPath == PathJoin(projectPath, viteConfigFile(options.typescript))

cssPath == PathJoin(projectPath, SrcIndexCss)

appPath == PathJoin(PathJoin(projectPath, NameSrc), appFile(options.typescript))

appCssPath == PathJoin(projectPath, SrcAppCss)

\* mutant of installTailwindClose: a failed package add rolls the project
\* back by removing what the generator wrote
installTailwindCloseRollsBack ==
  /\ pc = "installTailwind"
  /\ Last(spawned).cwd \in dirs
  /\ alive' = alive - 1
  /\ \E code \in 0..MaxExitCode, later \in LaterEvents :
       LET promise == promiseAfter(pending, << closeEvent(code) >> \o later) IN
       (late' = late + Len(later)) /\
       IF rejects(promise)
       THEN /\ ThrowInTry(commandRejection(Last(spawned), promise))
            /\ settled' = Append(settled, Settled("installTailwind", "close", code))
            /\ UNCHANGED fsInFlight
            /\ files' = [ q \in DOMAIN files \ DOMAIN generated |-> files[q] ]
       ELSE /\ fsInFlight' = fsInFlight + 1
            /\ settled' = Append(settled, Settled("installTailwind", "close", code))
            /\ pc' = "readFile"
            /\ UNCHANGED << out, spinner, exitCode, files >>
  /\ UNCHANGED << inputs, dirs, locals, spawned, mutations, generated >>

\* cli.js:589-595 for the spawn of cli.js:532, then cli.js:537
installTailwindClose ==
  /\ pc = "installTailwind"
  /\ Last(spawned).cwd \in dirs
  /\ alive' = alive - 1
  /\ \E code \in 0..MaxExitCode, later \in LaterEvents :
       LET promise == promiseAfter(pending, << closeEvent(code) >> \o later) IN
       (late' = late + Len(later)) /\
       IF rejects(promise)
       THEN /\ ThrowInTry(commandRejection(Last(spawned), promise))
            /\ settled' = Append(settled, Settled("installTailwind", "close", code))
            /\ UNCHANGED fsInFlight
       ELSE /\ fsInFlight' = fsInFlight + 1
            /\ settled' = Append(settled, Settled("installTailwind", "close", code))
            /\ pc' = "readFile"
            /\ UNCHANGED << out, spinner, exitCode >>
  /\ UNCHANGED << inputs, dirs, files, locals, spawned, mutations, generated >>

\* cli.js:597-599 for the spawn of cli.js:532
installTailwindError ==
  /\ pc = "installTailwind"
  /\ \E later \in LaterEvents :
       /\ ThrowInTry(commandRejection(Last(spawned),
                                      promiseAfter(pending, << errorEvent >> \o later)))
       /\ late' = late + Len(later)
  /\ settled' = Append(settled, Settled("installTailwind", "error", 0))
  /\ alive' = alive - 1
  /\ UNCHANGED << inputs, dirs, files, locals, spawned, fsInFlight, mutations,
                  generated >>

\* cli.js:537-556: fs.readFile has completed; the text is patched and the
\* write of the build-config file is issued
readFileDone ==
  /\ pc = "readFile"
  /\ \E failed \in BOOLEAN :
       IF failed \/ viteConfigPath \notin DOMAIN files
       THEN /\ ThrowInTry(systemErrorMessage("ENOENT: no such file or directory, open"))
            /\ settled' = Append(settled, Settled("readFile", "error", 0))
            /\ fsInFlight' = fsInFlight - 1
            /\ UNCHANGED viteConfig
       ELSE /\ viteConfig' = patchViteConfig(files[viteConfigPath])
            /\ settled' = Append(settled, Settled("readFile", "ok", 0))
            /\ fsInFlight' = (fsInFlight - 1) + 1
            /\ pc' = "writeViteConfig"
            /\ UNCHANGED << out, spinner, exitCode >>
  /\ UNCHANGED << inputs, late, dirs, files, projectName, projectPath, spawned,
                  alive, mutations, generated >>

\* mutant of writeFileDone: the write is not awaited, it is still in flight
\* when the next operation is issued
writeFileDoneNotAwaited(at, path, content, next) ==
  /\ pc = at
  /\ \E failed \in BOOLEAN :
       IF failed \/ ~CanWriteFile(path) \/ ~IsText(content)
       THEN /\ ThrowInTry(systemErrorMessage("ENOENT: no such file or directory, open"))
            /\ settled' = Append(settled, Settled(at, "error", 0))
            /\ fsInFlight' = fsInFlight - 1
            /\ UNCHANGED << files, mutations >>
       ELSE /\ files' = WriteFile(files, path, content)
            /\ settled' = Append(settled, Settled(at, "ok", 0))
            /\ mutations' = Append(mutations, [ op |-> "writeFile", path |-> path ])
            /\ fsInFlight' = fsInFlight + 1
            /\ pc' = next
            /\ UNCHANGED << out, spinner, exitCode >>
  /\ UNCHANGED << inputs, late, dirs, locals, spawned, alive, generated >>

\* a fs.writeFile(path, content) of installTailwind has completed; on
\* success the run is suspended at `next` with one more operation issued
writeFileDone(at, path, content, next) ==
  /\ pc = at
  /\ \E failed \in BOOLEAN :
       IF failed \/ ~CanWriteFile(path) \/ ~IsText(content)
       THEN /\ ThrowInTry(systemErrorMessage("ENOENT: no such file or directory, open"))
            /\ settled' = Append(settled, Settled(at, "error", 0))
            /\ fsInFlight' = fsInFlight - 1
            /\ UNCHANGED << files, mutations >>
       ELSE /\ files' = WriteFile(files, path, content)
            /\ settled' = Append(settled, Settled(at, "ok", 0))
            /\ mutations' = Append(mutations, [ op |-> "writeFile", path |-> path ])
            /\ fsInFlight' = (fsInFlight - 1) + 1
            /\ pc' = next
            /\ UNCHANGED << out, spinner, exitCode >>
  /\ UNCHANGED << inputs, late, dirs, locals, spawned, alive, generated >>

\* cli.js:556-561
writeViteConfigDone ==
  writeFileDone("writeViteConfig", viteConfigPath, viteConfig, "writeIndexCss")

\* cli.js:561-568
writeIndexCssDone ==
  writeFileDone("writeIndexCss", cssPath, tailwindImports, "writeApp")

\* cli.js:568-571
writeAppDone ==
  writeFileDone("writeApp", appPath, generateAppTemplate(options.template),
                "appCssExists")

\* cli.js:93-98: installTailwind has returned
tailwindInstalled ==
  BeginInstall(<< spin("succeed", "Tailwind CSS installed") >>)

\* cli.js:571-574: fs.pathExists(appCssPath) has completed
appCssExistsDone ==
  /\ pc = "appCssExists"
  /\ settled' = Append(settled, Settled("appCssExists", "ok", 0))
  /\ IF PathExists(appCssPath)
     THEN /\ fsInFlight' = (fsInFlight - 1) + 1
          /\ pc' = "removeAppCss"
          /\ UNCHANGED << out, spinner, spawned, alive, exitCode >>
     ELSE /\ fsInFlight' = fsInFlight - 1
          /\ tailwindInstalled
          /\ alive' = alive + 1
  /\ UNCHANGED << inputs, late, dirs, files, locals, mutations, generated >>

\* cli.js:572-574: fs.remove(appCssPath) has completed
removeAppCssDone ==
  /\ pc = "removeAppCss"
  /\ fsInFlight' = fsInFlight - 1
  /\ \E failed \in BOOLEAN :
       IF failed
       THEN /\ ThrowInTry(systemErrorMessage("EACCES: permission denied, unlink"))
            /\ settled' = Append(settled, Settled("removeAppCss", "error", 0))
            /\ UNCHANGED << dirs, files, mutations, spawned, alive >>
       ELSE /\ files' = RemoveFile(files, appCssPath)
            /\ settled' = Append(settled, Settled("removeAppCss", "ok", 0))
            /\ dirs' = { d \in dirs : ~StartsWith(d, appCssPath) }
            /\ mutations' = Append(mutations, [ op |-> "remove", path |-> appCssPath ])
            /\ tailwindInstalled
            /\ alive' = alive + 1
  /\ UNCHANGED << inputs, late, locals, generated >>

(***************************************************************************)
(* installDependencies (cli.js:576-578).                                   *)
(***************************************************************************)
\* cli.js:589-595 for the spawn of cli.js:577, then cli.js:99-123
installDependenciesClose ==
  /\ pc = "installDependencies"
  /\ Last(spawned).cwd \in dirs
  /\ alive' = alive - 1
  /\ \E code \in 0..MaxExitCode, later \in LaterEvents :
       LET promise == promiseAfter(pending, << closeEvent(code) >> \o later) IN
       (late' = late + Len(later)) /\
       IF rejects(promise)
       THEN /\ ThrowInTry(commandRejection(Last(spawned), promise))
            /\ settled' = Append(settled, Settled("installDependencies", "close", code))
       ELSE /\ spinner' = [ state |-> "succeed", text |-> "Dependencies installed" ]
            /\ settled' = Append(settled, Settled("installDependencies", "close", code))
            /\ Return(<< spin("succeed", "Dependencies installed") >> \o successReport)
  /\ UNCHANGED << inputs, dirs, files, locals, spawned, fsInFlight, mutations,
                  generated >>

\* cli.js:597-599 for the spawn of cli.js:577
installDependenciesError ==
  /\ pc = "installDependencies"
  /\ \E later \in LaterEvents :
       /\ ThrowInTry(commandRejection(Last(spawned),
                                      promiseAfter(pending, << errorEvent >> \o later)))
       /\ late' = late + Len(later)
  /\ settled' = Append(settled, Settled("installDependencies", "error", 0))
  /\ alive' = alive - 1
  /\ UNCHANGED << inputs, dirs, files, locals, spawned, fsInFlight, mutations,
                  generated >>

Next ==
  \/ action
  \/ readdirDone
  \/ promptsDone
  \/ pathExistsDone
  \/ createViteProjectClose
  \/ createViteProjectError
  \/ installTailwindClose
  \/ installTailwindError
  \/ readFileDone
  \/ writeViteConfigDone
  \/ writeIndexCssDone
  \/ writeAppDone
  \/ appCssExistsDone
  \/ removeAppCssDone
  \/ installDependenciesClose
  \/ installDependenciesError

Spec == Init /\ [][Next]_vars

(***************************************************************************)
(* The run under the assumptions that every prompt is answered, every      *)
(* child process exits and every file operation completes: the suspension  *)
(* points of createProject are the awaits of cli.js:44-99 and 532-572.     *)
(***************************************************************************)
\* cli.js:49: the prompt is answered
PromptAnswered == promptsDone

\* cli.js:88, 532 and 577: the child process delivers its events
ChildExits ==
  \/ createViteProjectClose
  \/ createViteProjectError
  \/ installTailwindClose
  \/ installTailwindError
  \/ installDependenciesClose
  \/ installDependenciesError

\* cli.js:44, 72 and 537-572: the file operation completes
FileOperationCompletes ==
  \/ readdirDone
  \/ pathExistsDone
  \/ readFileDone
  \/ writeViteConfigDone
  \/ writeIndexCssDone
  \/ writeAppDone
  \/ appCssExistsDone
  \/ removeAppCssDone

\* the inputs of the runs checked for termination: the current directory,
\* a name the validator accepts and one it rejects, a known and an unknown
\* template id, every combination of the flags, both working directories
LiveInit ==
  /\ Init
  /\ projectDirectory \in { Dot, NameApp, NameUpper }
  /\ options.template \in { "dashboard", "fancy" }
  /\ Append(cwd, NameScope) \notin dirs

LiveSpec ==
  /\ LiveInit
  /\ [][Next]_vars
  /\ WF_vars(action)
  /\ WF_vars(PromptAnswered)
  /\ WF_vars(ChildExits)
  /\ WF_vars(FileOperationCompletes)

(***************************************************************************)
(* installTailwind(projectPath, isTypeScript, templateType) called on a    *)
(* freshly generated project with any templateType (cli.js:531): the       *)
(* function does not validate its argument, createProject does (cli.js:34).*)
(***************************************************************************)
\* the values of templateType the function is called with
TemplateTypes == TemplateArgs \cup { "constructor" }

PatchInit ==
  /\ projectDirectory = NameApp
  /\ options \in [ typescript : BOOLEAN, tailwind : { TRUE }, template : TemplateTypes ]
  /\ cwd = << NameW >>
  /\ projectName = NameApp
  /\ projectPath = << NameW, NameApp >>
  /\ \E config \in GeneratedConfigs, withAppCss \in BOOLEAN :
       generated = skeleton(projectPath, template, config, withAppCss)
  /\ files = generated
  /\ dirs = Ancestors(projectPath) \cup { PathJoin(projectPath, NameSrc) }
  /\ pc = "installTailwind"
  /\ viteConfig = << >>
  /\ spinner = [ state |-> "spinning", text |-> "Installing Tailwind CSS..." ]
  /\ out = << >>
  /\ spawned = << tailwindSpawn(projectPath) >>
  /\ alive = 1
  /\ fsInFlight = 0
  /\ mutations = << >>
  /\ settled = << >>
  /\ initialEntries = dirs \cup DOMAIN files
  /\ late = 0
  /\ exitCode = -1

PatchNext ==
  \/ installTailwindClose
  \/ installTailwindError
  \/ readFileDone
  \/ writeViteConfigDone
  \/ writeIndexCssDone
  \/ writeAppDone
  \/ appCssExistsDone
  \/ removeAppCssDone
  \/ installDependenciesClose
  \/ installDependenciesError

PatchSpec == PatchInit /\ [][PatchNext]_vars

(***************************************************************************)
(* Vocabulary of the properties.  It is stated on the command line, the    *)
(* filesystem the tool was started on and the recorded history, not on the *)
(* definitions of the program above.                                       *)
(***************************************************************************)
Exited == pc = "exited"

KnownTemplateIds == { "basic", "dashboard", "landing", "blog" }

UnknownTemplateId == options.template \notin KnownTemplateIds

CurrentDirectoryTarget == projectDirectory \in { << >>, << "." >> }

NamedTarget == ~CurrentDirectoryTarget

\* the directory names of DirectoryArgs the name validator rejects
RejectedNames ==
  { NameUpper, NameUpperSpace, NameDotted, NameUnderscore, NameBlacklisted }

InvalidDirectoryName == NamedTarget /\ projectDirectory \in RejectedNames

\* the name resolved against the working directory
ResolvedName == cwd \o Split(projectDirectory, "/")

ExistingNamedTarget ==
  /\ NamedTarget
  /\ projectDirectory \notin RejectedNames
  /\ ResolvedName \in initialEntries

\* the run is one that an input error ends
InputError ==
  \/ UnknownTemplateId
  \/ InvalidDirectoryName
  \/ ExistingNamedTarget

\* the resolved target path of the run
ResolvedTarget == IF CurrentDirectoryTarget THEN cwd ELSE ResolvedName

\* the filesystem is as it was when the tool was started
FilesystemUntouched ==
  /\ mutations = << >>
  /\ dirs \cup DOMAIN files = initialEntries

SpinnerEvents == SelectSeq(out, LAMBDA m : m.stream = "spinner")

IsPrefix(a, b) == Len(a) <= Len(b) /\ SubSeq(b, 1, Len(a)) = a

\* the external commands, by the way the tool invokes them
IsGenerator(sp) == sp.command = << "npx" >>

IsPackageAdd(sp) ==
  /\ sp.command = << "npm" >>
  /\ sp.args = << << "install" >>, << "tailwindcss" >>, << "@tailwindcss/vite" >> >>

IsBulkInstall(sp) == sp.command = << "npm" >> /\ sp.args = << << "install" >> >>

\* the operations of settled that are child processes
IsChild(op) == op \in { "createViteProject", "installTailwind", "installDependencies" }

\* the operations of settled that belong to the stages of cli.js:87-99
IsStageOp(op) ==
  op \in { "createViteProject", "installTailwind", "readFile", "writeViteConfig",
           "writeIndexCss", "writeApp", "appCssExists", "removeAppCss",
           "installDependencies" }

\* settled[i] is a failure of a stage
StageFailedAt(i) ==
  /\ IsStageOp(settled[i].op)
  /\ \/ settled[i].outcome = "error"
     \/ settled[i].outcome = "close" /\ settled[i].code # 0

\* the children that have settled so far, in order
ChildrenSettled == SelectSeq(settled, LAMBDA r : IsChild(r.op))

\* the command line of a spawn call, as the shell receives it
CommandLine(sp) == JoinSpace(<< sp.command >> \o sp.args)

\* the last line printed is the top-level error report
ErrorReported ==
  /\ Len(out) > 0
  /\ Last(out).stream = "stderr"
  /\ Last(out).text[1] = "Error creating project:"

(***************************************************************************)
(* C1                                                                      *)
(***************************************************************************)
\* C1: every run that an input error ends (unknown template id, directory
\* name rejected by the validator, named target path that already exists)
\* terminates with process exit status 1.
C1_InputErrorExitsWithStatus1 ==
  (Exited /\ InputError) => exitCode = 1

(***************************************************************************)
(* C2                                                                      *)
(***************************************************************************)
\* C2: in a run that an input error ends, no external process is ever
\* spawned and the tool performs no filesystem write, create or delete, at
\* any point of the run (spawned and mutations only grow, so this is an
\* invariant of every state of such a run).
C2_InputErrorHasNoSideEffects ==
  InputError => (spawned = << >> /\ alive = 0 /\ FilesystemUntouched)

\* a run ended by an existing named target
C2_Witness ==
  /\ Exited
  /\ ExistingNamedTarget
  /\ ~UnknownTemplateId
  /\ Len(settled) = 1

(***************************************************************************)
(* C3                                                                      *)
(***************************************************************************)
\* C3: once the generator is invoked, the directory it is told to populate
\* (its working directory joined with its target argument) is the resolved
\* target path, for a named target as for the current directory.
C3_GeneratorPopulatesResolvedTarget ==
  \A i \in 1..Len(spawned) :
    IsGenerator(spawned[i])
      => Normalize(spawned[i].cwd, Split(spawned[i].args[2], "/")) = ResolvedTarget

(***************************************************************************)
(* C4                                                                      *)
(***************************************************************************)
\* the spinner events of a run in which every stage succeeds
StageEventsOfSuccess ==
  << spin("start", "Creating Vite project..."),
     spin("succeed", "Vite project created") >>
  \o (IF options.tailwind
      THEN << spin("start", "Installing Tailwind CSS..."),
              spin("succeed", "Tailwind CSS installed") >>
      ELSE << >>)
  \o << spin("start", "Installing dependencies..."),
        spin("succeed", "Dependencies installed") >>

\* the external commands of a run in which every stage succeeds
IsCommandOfStage(k, sp) ==
  IF k = 1 THEN IsGenerator(sp)
  ELSE IF k = 2 /\ options.tailwind THEN IsPackageAdd(sp)
  ELSE IsBulkInstall(sp)

StartsIn(ev) == { i \in 1..Len(ev) : ev[i].text[1] = "start" }

\* C4: the stages run in the order generator, CSS-framework patch (only
\* when enabled), dependency install, success report; a stage starts only
\* after the previous one has completed successfully; and never is more
\* than one child process alive or more than one filesystem operation in
\* flight.
C4_StagesSequential ==
  LET ev == SpinnerEvents
      done == IF Len(ev) > 0 /\ Last(ev).text[1] = "fail" THEN Front(ev) ELSE ev
  IN /\ alive <= 1
     /\ fsInFlight <= 1
     /\ IsPrefix(done, StageEventsOfSuccess)
     /\ \A i \in StartsIn(ev) : i > 1 => ev[i - 1].text[1] = "succeed"
     /\ Len(spawned) = Cardinality(StartsIn(ev))
     /\ \A k \in 1..Len(spawned) : IsCommandOfStage(k, spawned[k])
     /\ (\E j \in 1..Len(out) : out[j].text[1] = "Success! Created ")
          => ev = StageEventsOfSuccess

\* the patch stage is between two of its file operations, after the
\* generator and the package add have closed
C4_Witness ==
  /\ pc = "writeIndexCss"
  /\ fsInFlight = 1
  /\ alive = 0
  /\ Len(spawned) = 2

(***************************************************************************)
(* C5                                                                      *)
(***************************************************************************)
\* C5: when the generator, the patch stage or the install fails (non-zero
\* exit code, spawn error or file error), that failure is the last thing
\* the run does: no later stage is started, the status indicator is marked
\* failed, the error is printed with the 'Error creating project:' prefix
\* and the process ends with status 1.  A generator that exits with a
\* non-zero status is never followed by a patch or an install.
C5_StageFailureAborts ==
  \A i \in 1..Len(settled) :
    StageFailedAt(i)
      => /\ i = Len(settled)
         /\ Exited
         /\ exitCode = 1
         /\ alive = 0
         /\ fsInFlight = 0
         /\ spinner.state = "fail"
         /\ Len(SpinnerEvents) > 0
         /\ Last(SpinnerEvents).text[1] = "fail"
         /\ ErrorReported
         /\ Len(spawned) = Len(ChildrenSettled)
         /\ (settled[i].op = "createViteProject"
               => Len(spawned) = 1 /\ mutations = << >>)

\* the generator has exited with status 1
C5_Witness ==
  /\ Len(settled) > 0
  /\ Last(settled) = Settled("createViteProject", "close", 1)
  /\ options.tailwind

(***************************************************************************)
(* C6                                                                      *)
(***************************************************************************)
\* the error report carries the command line of the child that closed last
\* and its exit code
ReportCarriesCommandAndCode ==
  /\ ErrorReported
  /\ Includes(Last(out).text, CommandLine(Last(spawned)))
  /\ Includes(Last(out).text, << ToString(Last(settled).code) >>)

ChildClosedNonZero ==
  /\ Len(settled) > 0
  /\ IsChild(Last(settled).op)
  /\ Last(settled).outcome = "close"
  /\ Last(settled).code # 0

InitialCwdEntries ==
  { Last(q) : q \in { r \in initialEntries : Len(r) = Len(cwd) + 1
                                              /\ SubSeq(r, 1, Len(cwd)) = cwd } }

HasVisibleEntry == \E e \in InitialCwdEntries : e[1] # "."

PromptShown ==
  \/ pc = "prompts"
  \/ \E i \in 1..Len(settled) : settled[i].op = "prompts"

DirectoryListed ==
  \E i \in 1..Len(settled) : settled[i] = Settled("readdir", "ok", 0)

\* C7: when the target is the current directory (argument omitted or '.'),
\* once the directory has been listed the confirmation prompt is shown if
\* and only if the directory holds an entry whose name does not start with
\* '.'; with hidden entries only, or none, it is never shown.  For a named
\* target the prompt is never shown and the directory is never listed.
C7_PromptIffVisibleEntry ==
  /\ (CurrentDirectoryTarget /\ DirectoryListed)
       => (PromptShown <=> HasVisibleEntry)
  /\ ~HasVisibleEntry => ~PromptShown
  /\ NamedTarget => (~PromptShown /\ ~DirectoryListed)

\* a directory with a hidden entry only was listed and the run went on to
\* the generator without a prompt
C7_Witness ==
  /\ CurrentDirectoryTarget
  /\ InitialCwdEntries = { NameGit }
  /\ DirectoryListed
  /\ pc = "createViteProject"

(***************************************************************************)
(* C8                                                                      *)
(***************************************************************************)
Declined ==
  \E i \in 1..Len(settled) : settled[i] = Settled("prompts", "no", 0)

\* C8: when the user declines the non-empty-directory confirmation, the run
\* ends with exit status 0, no external process is ever spawned and the
\* tool performs no filesystem mutation.
C8_DeclineIsCleanExit ==
  Declined
    => /\ Exited
       /\ exitCode = 0
       /\ spawned = << >>
       /\ alive = 0
       /\ FilesystemUntouched
       /\ Last(out) = stdout(<< "Operation cancelled." >>)

C8_Witness ==
  /\ Declined
  /\ HasVisibleEntry
  /\ Exited

(***************************************************************************)
(* C9                                                                      *)
(***************************************************************************)
NamePassedValidation ==
  \E i \in 1..Len(settled) : settled[i].op = "pathExists"

\* C9: in a run that targets a named directory, the resolved path is the
\* name resolved against the working directory; the generator is invoked
\* only if no filesystem entry existed at that path; and when one exists
\* the run aborts at the check, without spawning anything and without
\* writing into the entry.
C9_NamedTargetMustNotExist ==
  NamedTarget
    => /\ (pc = "pathExists" \/ NamePassedValidation)
            => projectPath = ResolvedName
       /\ spawned # << >> => ResolvedName \notin initialEntries
       /\ (NamePassedValidation /\ ResolvedName \in initialEntries)
            => /\ Exited
               /\ spawned = << >>
               /\ FilesystemUntouched

\* the generator was invoked for a scoped name, which resolves to a path
\* two levels below the working directory
C9_Witness ==
  /\ projectDirectory = NameScoped
  /\ Len(spawned) = 1
  /\ projectPath = cwd \o << NameScope, << "a" >> >>

(***************************************************************************)
(* C10                                                                     *)
(***************************************************************************)
\* every file the generator wrote is there with the content it was given
GeneratedFilesIntact ==
  \A q \in DOMAIN generated : q \in DOMAIN files /\ files[q] = generated[q]

\* C10: with --no-tailwind the patch stage never runs: the package manager
\* is never asked to add packages, no file operation of the patch stage is
\* issued, and the build-config file, the entry stylesheet and every other
\* file the generator produced are, throughout and at the end of the run,
\* exactly as the generator produced them.
C10_NoTailwindLeavesGeneratedFiles ==
  ~options.tailwind
    => /\ \A i \in 1..Len(spawned) : ~IsPackageAdd(spawned[i])
       /\ \A i \in 1..Len(settled) :
            settled[i].op \in { "createViteProject", "installDependencies",
                                "readdir", "prompts", "pathExists" }
       /\ mutations = << >>
       /\ fsInFlight = 0 \/ pc \in { "readdir", "pathExists" }
       /\ GeneratedFilesIntact

\* a run without the CSS framework has ended with the success report
C10_Witness ==
  /\ ~options.tailwind
  /\ Exited
  /\ exitCode = 0
  /\ Len(spawned) = 2
  /\ DOMAIN generated # {}

(***************************************************************************)
(* Vocabulary of the properties of the patch stage.                        *)
(***************************************************************************)
\* the patch stage has reported success
PatchSucceeded ==
  \E j \in 1..Len(out) :
    out[j] = [ stream |-> "spinner",
               text |-> << "succeed", "Tailwind CSS installed" >> ]

SrcDirOfRun == Append(ResolvedTarget, << "src" >>)

\* src/App.tsx for the TypeScript variant, src/App.jsx otherwise
EntryFileOfRun ==
  Append(SrcDirOfRun, IF options.typescript THEN << "App", ".", "tsx" >>
                                            ELSE << "App", ".", "jsx" >>)

AppCssOfRun == Append(SrcDirOfRun, << "App", ".", "css" >>)

IndexCssOfRun == Append(SrcDirOfRun, << "index", ".", "css" >>)

\* vite.config.ts for the TypeScript variant, vite.config.js otherwise
ConfigFileOfRun ==
  Append(ResolvedTarget,
         IF options.typescript THEN << "vite", ".", "config", ".", "ts" >>
                               ELSE << "vite", ".", "config", ".", "js" >>)

\* the blob of a template id
BlobOf(id) ==
  IF id = "basic" THEN TemplateBasic
  ELSE IF id = "dashboard" THEN TemplateDashboard
  ELSE IF id = "landing" THEN TemplateLanding
  ELSE TemplateBlog

HasSettled(op, outcome) ==
  \E i \in 1..Len(settled) : settled[i].op = op /\ settled[i].outcome = outcome

(***************************************************************************)
(* C11                                                                     *)
(***************************************************************************)
\* C11: after a successful patch stage the application entry file
\* (src/App.tsx for the TypeScript variant, src/App.jsx otherwise) holds
\* exactly the blob of the selected template id, for each of basic,
\* dashboard, landing and blog, and src/App.css does not exist.
C11_EntryFileIsSelectedBlob ==
  PatchSucceeded
    => /\ options.template \in KnownTemplateIds
       /\ EntryFileOfRun \in DOMAIN files
       /\ files[EntryFileOfRun] = BlobOf(options.template)
       /\ AppCssOfRun \notin DOMAIN files
       /\ AppCssOfRun \notin dirs

\* the dashboard template went into a TypeScript project whose generator
\* had written src/App.css
C11_Witness ==
  /\ PatchSucceeded
  /\ options.template = "dashboard"
  /\ options.typescript
  /\ AppCssOfRun \in DOMAIN generated
  /\ Exited

(***************************************************************************)
(* C12                                                                     *)
(***************************************************************************)
\* C12: after a successful patch stage src/index.css is exactly the line
\* '@import "tailwindcss";' followed by a newline, whatever the generator
\* had written there.
C12_IndexCssIsTailwindImport ==
  PatchSucceeded
    => /\ IndexCssOfRun \in DOMAIN files
       /\ files[IndexCssOfRun] = << "@import \"tailwindcss\";", "\n" >>

\* the generator had written the longer of its two stylesheets
C12_Witness ==
  /\ PatchSucceeded
  /\ IndexCssOfRun \in DOMAIN generated
  /\ Len(generated[IndexCssOfRun]) = 4
  /\ files[IndexCssOfRun] # generated[IndexCssOfRun]

(***************************************************************************)
(* C13                                                                     *)
(***************************************************************************)
ImportLine == "import { defineConfig } from 'vite'"

\* the positions of the build-tool import line in a text
ImportLinesIn(text) == { i \in 1..Len(text) : text[i] = ImportLine }

\* the positions at which the plugin-array literal [react()] opens
PluginArraysIn(text) ==
  { j \in 1..(Len(text) - 1) : text[j] = "plugins: [react()" /\ text[j + 1] = "]" }

InsertAfter(text, i, added) ==
  SubSeq(text, 1, i) \o added \o SubSeq(text, i + 1, Len(text))

\* text with the CSS plugin import inserted after position i and the CSS
\* plugin call inserted after position j
TwoInsertions(text, i, j) ==
  LET import == << "\n", "import tailwindcss from '@tailwindcss/vite'" >>
      call == << ", tailwindcss()" >>
  IN IF i < j
     THEN InsertAfter(InsertAfter(text, j, call), i, import)
     ELSE InsertAfter(InsertAfter(text, i, import), j, call)

ConfigWritten == HasSettled("writeViteConfig", "ok")

TextOperationsApplied ==
  /\ HasSettled("writeApp", "ok")
  /\ ConfigFileOfRun \in DOMAIN generated

CssImport == << "\n", "import tailwindcss from '@tailwindcss/vite'" >>

\* the overwrites of the stylesheet and of the entry file, applied again to
\* the files they produced, leave the files as they are
OverwritesIdempotent ==
  /\ WriteFile(files, cssPath, tailwindImports) = files
  /\ WriteFile(files, appPath, generateAppTemplate(options.template)) = files

PatchOperationsSucceeded ==
  /\ HasSettled("writeApp", "ok")
  /\ HasSettled("appCssExists", "ok")
  /\ pc # "removeAppCss"
  /\ ~HasSettled("removeAppCss", "error")

\* the messages of the failures the environment delivers
EnvironmentFailures ==
  { "ENOENT: no such file or directory, open", "EACCES: permission denied, unlink",
    "EACCES: permission denied, scandir", "spawn npx ENOENT", "spawn npm ENOENT",
    "Vite creation failed with exit code ", "Command \"" }

\* C15: when an anchor text of the build-config patch is absent from the
\* generated file, that substitution changes nothing (the file written
\* back differs from the generated one by the other substitution only, and
\* not at all when both anchors are absent), the only errors ever reported
\* are failures of a child process or of a file operation, and a patch
\* stage whose operations all succeeded reports success and starts the
\* install stage whatever anchors the file held.
C15_MissingAnchorIsSilent ==
  /\ (ConfigWritten /\ ConfigFileOfRun \in DOMAIN generated)
       => LET original == generated[ConfigFileOfRun]
              written == files[ConfigFileOfRun]
              imports == ImportLinesIn(original)
              arrays == PluginArraysIn(original)
          IN /\ (imports = {} /\ arrays = {}) => written = original
             /\ (imports = {} /\ arrays # {})
                  => \E j \in arrays :
                       written = InsertAfter(original, j, << ", tailwindcss()" >>)
             /\ (imports # {} /\ arrays = {})
                  => \E i \in imports : written = InsertAfter(original, i, CssImport)
  /\ ErrorReported => Last(out).text[3] \in EnvironmentFailures
  /\ PatchOperationsSucceeded
       => /\ PatchSucceeded
          /\ Len(spawned) = 3
          /\ IsBulkInstall(spawned[3])

\* a build-config file with neither anchor went through the patch stage
\* and the install stage was started
C15_Witness ==
  /\ PatchOperationsSucceeded
  /\ generated[ConfigFileOfRun] = ConfigNoAnchors
  /\ files[ConfigFileOfRun] = ConfigNoAnchors
  /\ pc = "installDependencies"

(***************************************************************************)
(* C16                                                                     *)
(***************************************************************************)
\* installTailwind has looked the template up (cli.js:566)
TemplateLookedUp ==
  pc \in { "writeApp", "appCssExists", "removeAppCss", "installDependencies" }
    \/ HasSettled("writeApp", "ok") \/ HasSettled("writeApp", "error")

SpawnsOf(Kind(_)) == { i \in 1..Len(spawned) : Kind(spawned[i]) }

\* C17: no external command is retried: in any run the generator is
\* invoked at most once, the package add at most once and the bulk install
\* at most once, also after a failure, and every spawn call is one of these
\* three.
C17_NoRetries ==
  /\ Cardinality(SpawnsOf(IsGenerator)) <= 1
  /\ Cardinality(SpawnsOf(IsPackageAdd)) <= 1
  /\ Cardinality(SpawnsOf(IsBulkInstall)) <= 1
  /\ \A i \in 1..Len(spawned) :
       IsGenerator(spawned[i]) \/ IsPackageAdd(spawned[i]) \/ IsBulkInstall(spawned[i])
  /\ Len(ChildrenSettled) <= Len(spawned)
  /\ Len(ChildrenSettled) <= 3

\* the generator could not be spawned and the run has ended
C17_Witness ==
  /\ Exited
  /\ Len(settled) > 0
  /\ Last(settled) = Settled("createViteProject", "error", 0)
  /\ Len(spawned) = 1

(***************************************************************************)
(* C18                                                                     *)
(***************************************************************************)
GeneratorSucceeded ==
  \E i \in 1..Len(settled) : settled[i] = Settled("createViteProject", "close", 0)

InstallSucceeded ==
  \E i \in 1..Len(settled) : settled[i] = Settled("installDependencies", "close", 0)

SuccessReported ==
  \E j \in 1..Len(out) : out[j].stream = "stdout" /\ out[j].text[1] = "Success! Created "

\* C18: the bulk install is started in every run in which the generator
\* (and the patch stage, when enabled) succeeded, with or without the CSS
\* framework, with the resolved target path as working directory and with
\* no package argument; a successful install ends the run with the
\* success report and exit status 0.
C18_InstallAfterSuccessfulStages ==
  /\ (GeneratorSucceeded /\ (options.tailwind => PatchOperationsSucceeded))
       => /\ Len(spawned) = (IF options.tailwind THEN 3 ELSE 2)
          /\ Last(spawned) = [ command |-> << "npm" >>,
                               args |-> << << "install" >> >>,
                               cwd |-> ResolvedTarget ]
  /\ InstallSucceeded => (Exited /\ exitCode = 0 /\ SuccessReported /\ alive = 0)

\* a run on the current directory with the CSS framework has ended with a
\* successful install
C18_Witness ==
  /\ InstallSucceeded
  /\ options.tailwind
  /\ CurrentDirectoryTarget
  /\ Len(spawned) = 3

(***************************************************************************)
(* C19                                                                     *)
(***************************************************************************)
\* C19: the generator is invoked with the selector react-ts if and only if
\* the TypeScript flag is set and with react otherwise, always with the
\* non-interactive flag, and with '.' as target if and only if the resolved
\* target is the current working directory, otherwise with the directory
\* name given.
C19_GeneratorArguments ==
  \A i \in 1..Len(spawned) :
    spawned[i].command = << "npx" >>
      => /\ Len(spawned[i].args) = 5
         /\ spawned[i].args[1] = << "create-vite@latest" >>
         /\ spawned[i].args[3] = << "--template" >>
         /\ spawned[i].args[4] \in { << "react-ts" >>, << "react" >> }
         /\ (spawned[i].args[4] = << "react-ts" >>) <=> options.typescript
         /\ spawned[i].args[5] = << "--yes" >>
         /\ (spawned[i].args[2] = << "." >>) <=> (ResolvedTarget = cwd)
         /\ ResolvedTarget # cwd => spawned[i].args[2] = projectDirectory

\* the generator was invoked for a named TypeScript project
C19_Witness ==
  /\ Len(spawned) >= 1
  /\ projectDirectory = NameApp
  /\ options.typescript
  /\ spawned[1].args[2] = NameApp

(***************************************************************************)
(* C20                                                                     *)
(***************************************************************************)
\* the external invocations of a run without the CSS framework; the
\* template id is not among what determines them
InvocationsWithoutTailwind ==
  << [ command |-> << "npx" >>,
       args |-> << << "create-vite@latest" >>,
                   IF CurrentDirectoryTarget THEN << "." >> ELSE projectDirectory,
                   << "--template" >>,
                   IF options.typescript THEN << "react-ts" >> ELSE << "react" >>,
                   << "--yes" >> >>,
       cwd |-> SubSeq(ResolvedTarget, 1, Len(ResolvedTarget) - 1) ],
     [ command |-> << "npm" >>, args |-> << << "install" >> >>,
       cwd |-> ResolvedTarget ] >>

IsEntryOrAppCss(q) ==
  Last(q) \in { << "App", ".", "jsx" >>, << "App", ".", "tsx" >>, << "App", ".", "css" >> }

\* C20: without the CSS framework the selected template id has no effect:
\* for all four ids the external invocations of the run are those that the
\* directory argument, the working directory and the TypeScript flag
\* determine, and the application entry file and src/App.css are exactly
\* as the generator produced them.
C20_TemplateIdHasNoEffectWithoutTailwind ==
  (~options.tailwind /\ options.template \in KnownTemplateIds)
    => /\ IsPrefix(spawned, InvocationsWithoutTailwind)
       /\ \A q \in DOMAIN generated :
            IsEntryOrAppCss(q) => (q \in DOMAIN files /\ files[q] = generated[q])
       /\ \A q \in DOMAIN files :
            IsEntryOrAppCss(q) => q \in DOMAIN generated

\* a run with the blog template and without the CSS framework has ended
\* successfully, the generator having written src/App.css
C20_Witness ==
  /\ ~options.tailwind
  /\ options.template = "blog"
  /\ Exited
  /\ exitCode = 0
  /\ \E q \in DOMAIN generated : Last(q) = << "App", ".", "css" >>

(***************************************************************************)
(* C21                                                                     *)
(***************************************************************************)
\* the message the handler of the first event of a child rejects with;
\* settled holds the first event of each child
MessageOfFirstEvent(r, sp) ==
  IF r.outcome = "error"
  THEN IF r.op = "createViteProject"
       THEN << "spawn npx ENOENT" >>
       ELSE << "spawn npm ENOENT" >>
  ELSE IF r.op = "createViteProject"
       THEN viteErrorMessage(r.code)
       ELSE commandErrorMessage(sp.command, sp.args, r.code)

FirstEventFails(r) == r.outcome = "error" \/ r.code # 0

FailureReported ==
  \E j \in 1..Len(out) :
    \/ out[j].stream = "stderr" /\ out[j].text[1] = "Error creating project:"
    \/ out[j].stream = "spinner" /\ out[j].text[1] = "fail"

\* C21: each external command invocation has exactly one outcome, decided
\* by the first of its 'close' and 'error' events, whatever events follow:
\* a child settles once; when its first event is a failure, the run ends
\* with that failure reported once, with the message of the first event,
\* and nothing is spawned any more; when its first event is a close with
\* code 0, no failure is reported for its stage.
C21_FirstEventDecides ==
  /\ Len(ChildrenSettled) <= Len(spawned)
  /\ \A i, j \in 1..Len(ChildrenSettled) :
       i # j => ChildrenSettled[i].op # ChildrenSettled[j].op
  /\ \A k \in 1..Len(ChildrenSettled) :
       IF FirstEventFails(ChildrenSettled[k])
       THEN /\ k = Len(ChildrenSettled)
            /\ Len(spawned) = k
            /\ Last(settled) = ChildrenSettled[k]
            /\ Exited
            /\ exitCode = 1
            /\ Last(out).text
                 = << "Error creating project:", " " >>
                     \o MessageOfFirstEvent(ChildrenSettled[k], spawned[k])
            /\ Cardinality({ j \in 1..Len(out) :
                               out[j].stream = "stderr" }) = 1
       ELSE Last(settled) = ChildrenSettled[k] => ~FailureReported

\* the package add could not be spawned: its 'error' event was followed by
\* another event, and the run has ended
C21_Witness ==
  /\ late > 0
  /\ Exited
  /\ Len(settled) > 0
  /\ Last(settled) = Settled("installTailwind", "error", 0)

(***************************************************************************)
(* C22                                                                     *)
(***************************************************************************)
\* the package add of the patch stage has failed, by exit code or by a
\* failed spawn
PackageAddFailed ==
  \E i \in 1..Len(settled) :
    /\ settled[i].op = "installTailwind"
    /\ settled[i].outcome = "error" \/ settled[i].code # 0

\* C22: when the package add of the patch stage fails, the tool has
\* modified none of the generated files (every file the generator wrote,
\* build-config, entry stylesheet, application entry file and src/App.css
\* among them, is there with the content the generator gave it), the bulk
\* install is not run, and nothing the generator created is removed.
C22_PackageAddFailureLeavesProject ==
  PackageAddFailed
    => /\ \A q \in DOMAIN generated :
            /\ q \in DOMAIN files
            /\ files[q] = generated[q]
            /\ \A n \in 1..(Len(q) - 1) : SubSeq(q, 1, n) \in dirs
       /\ mutations = << >>
       /\ fsInFlight = 0
       /\ \A i \in 1..Len(spawned) : ~IsBulkInstall(spawned[i])
       /\ Len(spawned) = 2
       /\ Exited
       /\ exitCode = 1

\* the package add has closed with a non-zero code on a project the
\* generator wrote with src/App.css
C22_Witness ==
  /\ Len(settled) > 0
  /\ Last(settled) = Settled("installTailwind", "close", 1)
  /\ \E q \in DOMAIN generated : Last(q) = << "App", ".", "css" >>
  /\ \E q \in DOMAIN generated : Last(q) = << "index", ".", "css" >>

(***************************************************************************)
(* C23                                                                     *)
(***************************************************************************)
\* the terminal outcomes, by what the run has printed
RejectionPrinted ==
  \E j \in 1..Len(out) :
    out[j].stream = "stderr" /\ out[j].text[1] # "Error creating project:"

CancellationPrinted ==
  \E j \in 1..Len(out) :
    out[j].stream = "stdout" /\ out[j].text = << "Operation cancelled." >>

FailurePrinted ==
  \E j \in 1..Len(out) :
    out[j].stream = "stderr" /\ out[j].text[1] = "Error creating project:"

Outcomes ==
  { o \in { "rejected", "cancelled", "failed", "succeeded" } :
      \/ o = "rejected" /\ RejectionPrinted
      \/ o = "cancelled" /\ CancellationPrinted
      \/ o = "failed" /\ FailurePrinted /\ exitCode = 1
      \/ o = "succeeded" /\ SuccessReported }

\* the suspension points in the order of the code
StageOrder ==
  << { "action" }, { "readdir", "pathExists" }, { "prompts" },
     { "createViteProject" }, { "installTailwind" }, { "readFile" },
     { "writeViteConfig" }, { "writeIndexCss" }, { "writeApp" },
     { "appCssExists" }, { "removeAppCss" }, { "installDependencies" },
     { "exited" } >>

Position(p) ==
  IF \E n \in 1..Len(StageOrder) : p \in StageOrder[n]
  THEN CHOOSE n \in 1..Len(StageOrder) : p \in StageOrder[n]
  ELSE 0

\* C23: provided that every prompt is answered, every spawned child
\* process eventually exits and every file operation completes, every run
\* eventually ends; an ended run has exactly one terminal outcome (input
\* rejected, cancelled, failed with exit status 1, or success report
\* printed) and takes no further step; and the run only moves forward
\* through its stages, entering none again after leaving it.
C23_EveryRunEndsOnce ==
  /\ <>Exited
  /\ [](Exited => Cardinality(Outcomes) = 1)
  /\ [][~Exited /\ (pc' # pc => Position(pc') > Position(pc))]_vars

\* a run has gone through every stage, the removal of src/App.css
\* included, and has ended with the success report
C23_Witness ==
  /\ Exited
  /\ Outcomes = { "succeeded" }
  /\ \E i \in 1..Len(settled) : settled[i].op = "removeAppCss"

====
